---- MODULE Spec2Model ----
(***************************************************************************)
(* Model of the HID bridge firmware (ardunio_code.ino, queue-mode variant, *)
(* lines 1..740): the frame parser, the command queue, the executor with   *)
(* its TimedAction slot, the button ISR and the main loop.                 *)
(*                                                                         *)
(* The main loop is one thread of control whose position is pc; the ISR    *)
(* preempts it between any two of its steps.  Bytes the host has sent and  *)
(* the firmware has not read yet are in wire.  millis() is now.            *)
(***************************************************************************)
EXTENDS Integers, Sequences, FiniteSets, TLC

\* ---------------------------------------------------------------- constants
SYNC_BYTE == 170
MAX_PACKET_SIZE == 32
ACK_SUCCESS == 240
ACK_CRC_ERROR == 241
ACK_INVALID_CMD == 242
ACK_PARAM_ERROR == 243
ACK_INTERRUPTED == 244
CMD_MOUSE_MOVE == 1
CMD_MOUSE_PRESS == 2
CMD_MOUSE_RELEASE == 3
CMD_MOUSE_CLICK == 4
CMD_MOUSE_PRESS_TIMED == 5
CMD_KB_PRESS == 16
CMD_KB_RELEASE == 17
CMD_KB_WRITE == 18
CMD_KB_RELEASE_ALL == 19
CMD_KB_PRINT == 20
CMD_KB_PRESS_TIMED == 21
CMD_PAUSE_LOG == 32
CMD_RESUME_LOG == 33
CMD_CLEAR_QUEUE == 34
BUTTON_DEBOUNCE_MS == 50
QUEUE_SIZE == 16
STATS_INTERVAL == 30000
MOUSE_ALL == 7
U8 == 256
U16 == 65536

\* ------------------------------------------------------------------- bounds
\* Frames the host sends, button edges and clock advances in one behaviour, by
\* scenario: "exec" (Spec), "parser" (SpecParser), "fill" (SpecFill), "button"
\* (SpecButton), "timed" (SpecTimed), "stats" (SpecStats).
ParserFrames == 2
ExecFrames == 2
FillFrames == 18
MaxPresses == 1
MaxTicks == 1
ButtonFrames == 1
ButtonPresses == 2
ButtonTicks == 2
TimedFrames == 1
TimedPresses == 1
TimedTicks == 2
StatsFrames == 2
StatsPresses == 1
StatsTicks == 2
\* crc8 is applied to every single byte, to the sequences of up to CrcMaxLen
\* bytes out of CrcBytes and to the longest payload (31 bytes).
CrcMaxLen == 3

VARIABLES
    pc,                 \* position of the main loop inside loop()
    g_interrupt_flag, g_log_enabled, last_button_press,
    cmdQueue,           \* [queue, head, tail, count]
    rx_buffer, rx_state, rx_len, rx_idx,
    timedAction,        \* [active, action_type, button_or_key, start_time, duration_ms]
    logger,             \* [packet_counter, error_counter, success_counter]
    last_stats_time,
    cur, i,             \* executeCommand's packet and index inside the KB_PRINT loop
    now,                \* millis()
    wire,               \* bytes received and not yet read: Serial.available() = Len(wire)
    pending,            \* the rest of the host's current frame, still on its way
    scenario,           \* what the host sends in this behaviour
    nSent, nPress, nTick, \* inputs used so far
    ackOut, hidOut, ev, \* Serial.write bytes, HID calls and branch taken by the last loop step
    accepted, intAcks,  \* button events accepted by the debouncer, 0xF4 bytes sent
    crc_data, crc_out   \* crc8's argument and its result ("crc" scenario, SpecCrc)

vars == <<pc, g_interrupt_flag, g_log_enabled, last_button_press, cmdQueue,
          rx_buffer, rx_state, rx_len, rx_idx, timedAction, logger,
          last_stats_time, cur, i, now, wire, pending, scenario, nSent, nPress,
          nTick, ackOut, hidOut, ev, accepted, intAcks, crc_data, crc_out>>

\* ------------------------------------------------------------------ CRC-8
CRC8_TABLE == <<
      0,  94, 188, 226,  97,  63, 221, 131, 194, 156, 126,  32, 163, 253,  31,  65,
    157, 195,  33, 127, 252, 162,  64,  30,  95,   1, 227, 189,  62,  96, 130, 220,
     35, 125, 159, 193,  66,  28, 254, 160, 225, 191,  93,   3, 128, 222,  60,  98,
    190, 224,   2,  92, 223, 129,  99,  61, 124,  34, 192, 158,  29,  67, 161, 255,
     70,  24, 250, 164,  39, 121, 155, 197, 132, 218,  56, 102, 229, 187,  89,   7,
    219, 133, 103,  57, 186, 228,   6,  88,  25,  71, 165, 251, 120,  38, 196, 154,
    101,  59, 217, 135,   4,  90, 184, 230, 167, 249,  27,  69, 198, 152, 122,  36,
    248, 166,  68,  26, 153, 199,  37, 123,  58, 100, 134, 216,  91,   5, 231, 185,
    140, 210,  48, 110, 237, 179,  81,  15,  78,  16, 242, 172,  47, 113, 147, 205,
     17,  79, 173, 243, 112,  46, 204, 146, 211, 141, 111,  49, 178, 236,  14,  80,
    175, 241,  19,  77, 206, 144, 114,  44, 109,  51, 209, 143,  12,  82, 176, 238,
     50, 108, 142, 208,  83,  13, 239, 177, 240, 174,  76,  18, 145, 207,  45, 115,
    202, 148, 118,  40, 171, 245,  23,  73,   8,  86, 180, 234, 105,  55, 213, 139,
     87,   9, 235, 181,  54, 104, 138, 212, 149, 203,  41, 119, 244, 170,  72,  22,
    233, 183,  85,  11, 136, 214,  52, 106,  43, 117, 151, 201,  74,  20, 246, 168,
    116,  42, 200, 150,  21,  75, 169, 247, 182, 232,  10,  84, 215, 137, 107,  53 >>

\* bit k of a ^ b
XorBit(a, b, k) == (((a \div (2 ^ k)) % 2) + ((b \div (2 ^ k)) % 2)) % 2

\* a ^ b on uint8_t
Xor8(a, b) ==
    XorBit(a, b, 0) + 2 * XorBit(a, b, 1) + 4 * XorBit(a, b, 2) + 8 * XorBit(a, b, 3)
    + 16 * XorBit(a, b, 4) + 32 * XorBit(a, b, 5) + 64 * XorBit(a, b, 6)
    + 128 * XorBit(a, b, 7)

RECURSIVE crc8From(_, _, _, _)
crc8From(crc, data, k, len) ==
    IF k >= len THEN crc
    ELSE LET next == CRC8_TABLE[Xor8(crc, data[k + 1]) + 1]
         IN  \* the test makes TLC compute next before the recursive call
             IF next \in 0..255 THEN crc8From(next, data, k + 1, len) ELSE next

\* (mutant) the table entry of the last byte alone: the running crc is not fed back
crc8LastByte(data, len) == IF len = 0 THEN 0 ELSE CRC8_TABLE[data[len] + 1]

\* crc8(data, len): table-driven, crc starts at 0, over data[0..len-1].
crc8(data, len) == crc8From(0, data, 0, len)

\* ---------------------------------------------------------- CommandQueue
\* A CommandPacket.  params is the first param_len bytes of the array (no code
\* reads beyond them); timestamp is written at admission and never read, and is
\* left out.
NoPacket == [cmd |-> 0, params |-> <<>>, param_len |-> 0]

EmptyQueue == [queue |-> [s \in 0..(QUEUE_SIZE - 1) |-> NoPacket],
               head |-> 0, tail |-> 0, count |-> 0]

\* (mutant) push with the capacity test off by one
pushOffByOne(q, packet) ==
    IF q.count > QUEUE_SIZE THEN [ok |-> FALSE, q |-> q]
    ELSE [ok |-> TRUE,
          q |-> [queue |-> [q.queue EXCEPT ![q.tail] = packet],
                 head |-> q.head,
                 tail |-> (q.tail + 1) % QUEUE_SIZE,
                 count |-> (q.count + 1) % U8]]

\* push: [ok, q]
push(q, packet) ==
    IF q.count >= QUEUE_SIZE THEN [ok |-> FALSE, q |-> q]
    ELSE [ok |-> TRUE,
          q |-> [queue |-> [q.queue EXCEPT ![q.tail] = packet],
                 head |-> q.head,
                 tail |-> (q.tail + 1) % QUEUE_SIZE,
                 count |-> (q.count + 1) % U8]]

\* (mutant) pop that takes the newest command instead of the oldest
popNewest(q) ==
    IF q.count = 0 THEN [ok |-> FALSE, packet |-> NoPacket, q |-> q]
    ELSE [ok |-> TRUE,
          packet |-> q.queue[(q.tail + QUEUE_SIZE - 1) % QUEUE_SIZE],
          q |-> [queue |-> q.queue,
                 head |-> q.head,
                 tail |-> (q.tail + QUEUE_SIZE - 1) % QUEUE_SIZE,
                 count |-> (q.count - 1) % U8]]

\* pop: [ok, packet, q]
pop(q) ==
    IF q.count = 0 THEN [ok |-> FALSE, packet |-> NoPacket, q |-> q]
    ELSE [ok |-> TRUE,
          packet |-> q.queue[q.head],
          q |-> [queue |-> q.queue,
                 head |-> (q.head + 1) % QUEUE_SIZE,
                 tail |-> q.tail,
                 count |-> (q.count - 1) % U8]]

\* (mutant) clear that leaves tail where it was
clearKeepsTail(q) == [queue |-> q.queue, head |-> 0, tail |-> q.tail, count |-> 0]

clear(q) == [queue |-> q.queue, head |-> 0, tail |-> 0, count |-> 0]

size(q) == q.count
isEmpty(q) == q.count = 0
isFull(q) == q.count >= QUEUE_SIZE

\* ------------------------------------------------------------------ Logger
\* The counters move only while g_log_enabled (CURRENT_LOG_LEVEL is DEBUG).
\* They are uint32_t; no behaviour within the bounds comes near 2^32 increments.
logPacketReceived(lg, en) ==
    IF ~en THEN lg ELSE [lg EXCEPT !.packet_counter = @ + 1]

logError(lg, en) ==
    IF ~en THEN lg ELSE [lg EXCEPT !.error_counter = @ + 1]

logCRCError(lg, en) == IF ~en THEN lg ELSE logError(lg, en)

logInvalidCommand(lg, en) == IF ~en THEN lg ELSE logError(lg, en)

logParamError(lg, en) == IF ~en THEN lg ELSE logError(lg, en)

logACK(lg, en, ack_code) ==
    IF ~en THEN lg
    ELSE IF ack_code = ACK_SUCCESS
         THEN [lg EXCEPT !.success_counter = @ + 1]
         ELSE lg

reset_counter(lg) == [packet_counter |-> 0, error_counter |-> 0, success_counter |-> 0]

logStats(lg, en) == IF ~en THEN lg ELSE reset_counter(lg)

\* (mutant) sendAck that writes the byte only while logging is enabled
sendAckGated(lg, en, ack_code) ==
    [out |-> IF en THEN <<ack_code>> ELSE <<>>, logger |-> logACK(lg, en, ack_code)]

\* sendAck: the byte written to Serial and the logger after logACK.
sendAck(lg, en, ack_code) == [out |-> <<ack_code>>, logger |-> logACK(lg, en, ack_code)]

\* --------------------------------------------------------------- HID calls
HidCall(dev, op, args) == [dev |-> dev, op |-> op, args |-> args]

ToInt8(b) == IF b >= 128 THEN b - 256 ELSE b

\* (mutant) the duration read low byte first
DurationLittleEndian(params) == (params[3] * 256 + params[2]) % 65536

\* (params[1] << 8) | params[2], stored in a uint16_t
Duration(params) == (params[2] * 256 + params[3]) % 65536

\* uint32_t values (millis() and the times stored from it) are kept as two 16-bit
\* halves, so that the arithmetic wraps at 2^32 as the code's does.
V32(hi_, lo_) == [hi |-> hi_, lo |-> lo_]

Add32(a, b) ==
    LET lo_ == a.lo + b.lo
    IN  V32((a.hi + b.hi + (lo_ \div U16)) % U16, lo_ % U16)

\* Unsigned 32-bit difference a - b
Diff32(a, b) ==
    LET lo_ == a.lo - b.lo
    IN  V32((a.hi - b.hi - (IF lo_ < 0 THEN 1 ELSE 0)) % U16, lo_ % U16)

\* a > n and a >= n for a 32-bit a and 0 <= n < 2^16
Gt32(a, n) == a.hi > 0 \/ a.lo > n
Ge32(a, n) == a.hi > 0 \/ a.lo >= n

\* (mutant) the timed target always released through the mouse
ReleaseTimedMouseOnly(ta) == HidCall("Mouse", "release", <<ta.button_or_key>>)

ReleaseTimed(ta) ==
    IF ta.action_type = 0
    THEN HidCall("Mouse", "release", <<ta.button_or_key>>)
    ELSE HidCall("Keyboard", "release", <<ta.button_or_key>>)

\* ---------------------------------------------------------- executeCommand
\* The state executeCommand reads and writes, as a record:
\*   flag, en (g_log_enabled), ta (timedAction), q (cmdQueue), lg (logger), t (millis()),
\* and what it did: hid (HID calls), ev (branch taken).
\* KB_PRINT's loop is not run here: ev = "print" hands it to the PrintStep action.
Done(st, ev_, hid_) == [st EXCEPT !.ev = ev_, !.hid = hid_]

StartTimed(st, packet, type) ==
    [st EXCEPT !.ta = [active |-> TRUE, action_type |-> type,
                       button_or_key |-> packet.params[1],
                       start_time |-> st.t,
                       duration_ms |-> Duration(packet.params)],
               !.ev = "timed_start",
               !.hid = <<HidCall(IF type = 0 THEN "Mouse" ELSE "Keyboard", "press",
                                 <<packet.params[1]>>)>>]

OneParam(st, packet, dev, op) ==
    IF packet.param_len # 1 THEN Done(st, "drop", <<>>)
    ELSE Done(st, "exec", <<HidCall(dev, op, <<packet.params[1]>>)>>)

executeCommand(st, packet) ==
    IF st.flag THEN Done(st, "skip", <<>>)
    ELSE CASE packet.cmd = CMD_MOUSE_MOVE ->
                IF packet.param_len # 3
                THEN [Done(st, "drop", <<>>) EXCEPT !.lg = logParamError(st.lg, st.en)]
                ELSE Done(st, "exec", <<HidCall("Mouse", "move",
                          <<ToInt8(packet.params[1]), ToInt8(packet.params[2]),
                            ToInt8(packet.params[3])>>)>>)
           [] packet.cmd = CMD_MOUSE_PRESS -> OneParam(st, packet, "Mouse", "press")
           [] packet.cmd = CMD_MOUSE_RELEASE -> OneParam(st, packet, "Mouse", "release")
           [] packet.cmd = CMD_MOUSE_CLICK -> OneParam(st, packet, "Mouse", "click")
           [] packet.cmd = CMD_MOUSE_PRESS_TIMED ->
                IF packet.param_len # 3 THEN Done(st, "drop", <<>>)
                ELSE StartTimed(st, packet, 0)
           [] packet.cmd = CMD_KB_PRESS -> OneParam(st, packet, "Keyboard", "press")
           [] packet.cmd = CMD_KB_RELEASE -> OneParam(st, packet, "Keyboard", "release")
           [] packet.cmd = CMD_KB_WRITE -> OneParam(st, packet, "Keyboard", "write")
           [] packet.cmd = CMD_KB_RELEASE_ALL ->
                Done(st, "exec", <<HidCall("Keyboard", "releaseAll", <<>>)>>)
           [] packet.cmd = CMD_KB_PRINT -> Done(st, "print", <<>>)
           [] packet.cmd = CMD_KB_PRESS_TIMED ->
                IF packet.param_len # 3 THEN Done(st, "drop", <<>>)
                ELSE StartTimed(st, packet, 1)
           [] packet.cmd = CMD_PAUSE_LOG -> [Done(st, "pause", <<>>) EXCEPT !.en = FALSE]
           [] packet.cmd = CMD_RESUME_LOG -> [Done(st, "resume", <<>>) EXCEPT !.en = TRUE]
           [] packet.cmd = CMD_CLEAR_QUEUE -> [Done(st, "clear", <<>>) EXCEPT !.q = clear(st.q)]
           [] OTHER -> [Done(st, "invalid", <<>>) EXCEPT !.lg = logInvalidCommand(st.lg, st.en)]

\* ----------------------------------------------------------- processPacket
\* (mutant) opcode 0x7F also taken for a control-plane command
IsControlOrUnknown(cmd) ==
    cmd = CMD_PAUSE_LOG \/ cmd = CMD_RESUME_LOG \/ cmd = CMD_CLEAR_QUEUE \/ cmd = 127

IsControl(cmd) == cmd = CMD_PAUSE_LOG \/ cmd = CMD_RESUME_LOG \/ cmd = CMD_CLEAR_QUEUE

\* data[1..len] is the payload; st as for executeCommand, plus ack (bytes written
\* to Serial).
processPacket(st, data, len) ==
    IF len < 1
    THEN LET a == sendAck(logError(st.lg, st.en), st.en, ACK_PARAM_ERROR)
         IN  [st EXCEPT !.ev = "empty", !.ack = a.out, !.lg = a.logger]
    ELSE LET packet == [cmd |-> data[1], params |-> SubSeq(data, 2, len),
                        param_len |-> len - 1]
         IN  IF IsControl(packet.cmd)
             THEN LET r == executeCommand(st, packet)
                      a == sendAck(r.lg, r.en, ACK_SUCCESS)
                  IN  [r EXCEPT !.ack = a.out, !.lg = a.logger]
             ELSE LET p == push(st.q, packet)
                  IN  IF p.ok
                      THEN LET a == sendAck(st.lg, st.en, ACK_SUCCESS)
                           IN  [st EXCEPT !.q = p.q, !.ev = "admit",
                                          !.ack = a.out, !.lg = a.logger]
                      ELSE LET a == sendAck(logError(st.lg, st.en), st.en, ACK_PARAM_ERROR)
                           IN  [st EXCEPT !.ev = "full", !.ack = a.out, !.lg = a.logger]

\* ------------------------------------------------------------ frame parser
\* One pass of the body of `while (Serial.available() > 0)` on byte_in.
\* rx_buffer holds the bytes written since rx_idx was last 0 (indices 0..rx_idx-1):
\* the code never reads a slot of the array before writing it in the same frame.
\* Returns the parser's fields and st.
\* (mutant) the length test off by one: LEN = 32 accepted
LengthBadOffByOne(len) == len = 0 \/ len > MAX_PACKET_SIZE

\* rx_len == 0 || rx_len > MAX_PACKET_SIZE - 1
\* (mutant) the LEN test without its upper limit
LengthBadZeroOnly(len) == len = 0

LengthBad(len) == len = 0 \/ len > MAX_PACKET_SIZE - 1

\* (mutant) the CRC computed over the payload without its last byte
CrcOkShort(buf, len) == buf[len + 1] = crc8(buf, len - 1)

\* received_crc == calculated_crc, buf holding the payload and the CRC byte
CrcOk(buf, len) == buf[len + 1] = crc8(buf, len)

\* (mutant) the stray byte 0x55 also taken for a frame's start
IsSyncOrStray(byte_in) == byte_in = SYNC_BYTE \/ byte_in = 85

\* in == SYNC_BYTE
IsSync(byte_in) == byte_in = SYNC_BYTE

parseByte(st, state, len, idx, buf, byte_in) ==
    CASE state = 0 ->
            IF IsSync(byte_in)
            THEN [rx_state |-> 1, rx_len |-> len, rx_idx |-> 0, rx_buffer |-> <<>>,
                  st |-> [st EXCEPT !.ev = "sync"]]
            ELSE [rx_state |-> 0, rx_len |-> len, rx_idx |-> idx, rx_buffer |-> buf,
                  st |-> [st EXCEPT !.ev = "garbage"]]
      [] state = 1 ->
            IF LengthBad(byte_in)
            THEN LET a == sendAck(logError(st.lg, st.en), st.en, ACK_PARAM_ERROR)
                 IN  [rx_state |-> 0, rx_len |-> byte_in, rx_idx |-> idx, rx_buffer |-> buf,
                      st |-> [st EXCEPT !.ev = "len_bad", !.ack = a.out, !.lg = a.logger]]
            ELSE [rx_state |-> 2, rx_len |-> byte_in, rx_idx |-> 0, rx_buffer |-> <<>>,
                  st |-> [st EXCEPT !.ev = "len_ok",
                                    !.lg = logPacketReceived(st.lg, st.en)]]
      [] state = 2 ->
            LET buf2 == Append(buf, byte_in)
                idx2 == (idx + 1) % U8
            IN  IF idx2 = len + 1
                THEN LET r == IF CrcOk(buf2, len)
                              THEN processPacket(st, buf2, len)
                              ELSE LET a == sendAck(logCRCError(st.lg, st.en), st.en,
                                                    ACK_CRC_ERROR)
                                   IN  [st EXCEPT !.ev = "crc_err", !.ack = a.out,
                                                  !.lg = a.logger]
                     IN  [rx_state |-> 0, rx_len |-> len, rx_idx |-> 0,
                          rx_buffer |-> <<>>, st |-> r]
                ELSE [rx_state |-> 2, rx_len |-> len, rx_idx |-> idx2, rx_buffer |-> buf2,
                      st |-> [st EXCEPT !.ev = "payload"]]
      [] OTHER -> [rx_state |-> state, rx_len |-> len, rx_idx |-> idx, rx_buffer |-> buf,
                   st |-> [st EXCEPT !.ev = "none"]]

\* ----------------------------------------------------------------- the host
Frame(payload) == <<SYNC_BYTE, Len(payload)>> \o payload \o <<crc8(payload, Len(payload))>>

\* S2 of the spec: the frame with its CRC byte flipped.
BadCrcFrame(payload) ==
    <<SYNC_BYTE, Len(payload)>> \o payload \o <<Xor8(crc8(payload, Len(payload)), 255)>>

\* KB_PRINT of 30 bytes: LEN = 31
MaxFrame == Frame(<<CMD_KB_PRINT>> \o [k \in 1..30 |-> 96 + (k % 26)])

\* Framing cases: good and bad CRC, every kind of LEN byte, stray bytes.
ParserItems ==
    { Frame(<<CMD_MOUSE_CLICK, 1>>),
      Frame(<<CMD_PAUSE_LOG>>), Frame(<<CMD_RESUME_LOG>>), Frame(<<CMD_CLEAR_QUEUE>>),
      BadCrcFrame(<<CMD_MOUSE_CLICK, 1>>),
      MaxFrame,
      <<SYNC_BYTE, 0>>, <<SYNC_BYTE, 32>>, <<SYNC_BYTE, SYNC_BYTE>>,
      <<85>> }

\* Commands: plain, timed (50 ms), printed, unknown, wrong arity, control.
ExecItems ==
    { Frame(<<CMD_MOUSE_MOVE, 5, 251, 0>>),
      Frame(<<CMD_KB_PRESS_TIMED, 65, 0, 50>>),
      Frame(<<CMD_MOUSE_PRESS_TIMED, 1, 0, 50>>),
      Frame(<<CMD_KB_PRINT, 97, 98>>),
      Frame(<<CMD_CLEAR_QUEUE>>),
      Frame(<<127>>),
      Frame(<<CMD_MOUSE_PRESS>>) }

\* The n-th frame of the fill scenario carries the number n as its first
\* parameter, so the commands in the queue are all different: the first frame
\* types character n with KB_PRINT, the others click button mask n.
FillItems(n) ==
    IF n = 1 THEN { Frame(<<CMD_KB_PRINT, n>>) } ELSE { Frame(<<CMD_MOUSE_CLICK, n>>) }

\* Timed holds of 51 ms (keyboard) and 256 ms (mouse, duration bytes 01 00), and
\* a printed character.
TimedItems ==
    { Frame(<<CMD_KB_PRESS_TIMED, 65, 0, 51>>),
      Frame(<<CMD_MOUSE_PRESS_TIMED, 1, 1, 0>>),
      Frame(<<CMD_KB_PRINT, 97>>) }

\* Logging paused and resumed, a frame that is counted as an error, a printed
\* character.
StatsItems ==
    { Frame(<<CMD_PAUSE_LOG>>), Frame(<<CMD_RESUME_LOG>>),
      BadCrcFrame(<<CMD_MOUSE_CLICK, 1>>),
      Frame(<<CMD_KB_PRINT, 97>>) }

HostItems(sc, n) ==
    CASE sc = "parser" -> ParserItems
      [] sc = "exec" -> ExecItems
      [] sc = "fill" -> FillItems(n)
      [] sc = "timed" -> TimedItems
      [] sc = "stats" -> StatsItems
      [] OTHER -> { Frame(<<CMD_KB_PRINT, 97, 98>>) }

SendBudget(sc) ==
    CASE sc = "parser" -> ParserFrames
      [] sc = "exec" -> ExecFrames
      [] sc = "fill" -> FillFrames
      [] sc = "timed" -> TimedFrames
      [] sc = "stats" -> StatsFrames
      [] OTHER -> ButtonFrames

PressBudget(sc) ==
    CASE sc = "button" -> ButtonPresses
      [] sc = "timed" -> TimedPresses
      [] sc = "stats" -> StatsPresses
      [] OTHER -> MaxPresses

TickBudget(sc) ==
    CASE sc = "button" -> ButtonTicks
      [] sc = "timed" -> TimedTicks
      [] sc = "stats" -> StatsTicks
      [] OTHER -> MaxTicks

\* By how much the clock may advance in one step: just past the debounce time and
\* the timed holds the host asks for, and (button scenario) exactly the debounce
\* time, past the statistics interval, and up to 36 ms before millis() wraps;
\* (timed scenario) to just before and exactly onto the deadlines of the holds;
\* (stats scenario) exactly the statistics interval and just past it.
TickSteps(sc) ==
    CASE sc = "button" -> {V32(0, 50), V32(0, 51), V32(0, 30001), V32(U16 - 1, U16 - 36)}
      [] sc = "timed" -> {V32(0, 50), V32(0, 51), V32(0, 205), V32(U16 - 1, U16 - 36)}
      [] sc = "stats" -> {V32(0, STATS_INTERVAL), V32(0, STATS_INTERVAL + 1)}
      [] OTHER -> {V32(0, 51)}

\* --------------------------------------------------------------------- Init
InitState ==
    /\ pc = "int"
    /\ g_interrupt_flag = FALSE
    /\ g_log_enabled = TRUE
    /\ last_button_press = V32(0, 0)
    /\ cmdQueue = EmptyQueue
    /\ rx_buffer = <<>> /\ rx_state = 0 /\ rx_len = 0 /\ rx_idx = 0
    /\ timedAction = [active |-> FALSE, action_type |-> 0, button_or_key |-> 0,
                      start_time |-> V32(0, 0), duration_ms |-> 0]
    /\ logger = [packet_counter |-> 0, error_counter |-> 0, success_counter |-> 0]
    /\ last_stats_time = V32(0, 0)
    /\ cur = NoPacket /\ i = 0
    /\ now = V32(0, 0)
    /\ wire = <<>> /\ pending = <<>>
    /\ nSent = 0 /\ nPress = 0 /\ nTick = 0
    /\ ackOut = <<>> /\ hidOut = <<>> /\ ev = "none"
    /\ accepted = 0 /\ intAcks = 0

\* In the firmware scenarios crc8 is called from the receive loop only.
InitCommon == InitState /\ crc_data = <<>> /\ crc_out = 0

Init == InitCommon /\ scenario = "exec"

InitParser == InitCommon /\ scenario = "parser"

InitFill == InitCommon /\ scenario = "fill"

InitButton == InitCommon /\ scenario = "button"

InitTimed == InitCommon /\ scenario = "timed"

InitStats == InitCommon /\ scenario = "stats"

\* The byte sequences crc8 is applied to in the "crc" scenario.
CrcBytes == {0, 1, 128, 255}

RECURSIVE SeqsUpTo(_, _)
SeqsUpTo(S, n) ==
    IF n = 0 THEN {<<>>}
    ELSE LET shorter == SeqsUpTo(S, n - 1)
         IN  shorter \cup {Append(q, b) : q \in shorter, b \in S}

CrcInputs ==
    {<<b>> : b \in 0..(U8 - 1)} \cup SeqsUpTo(CrcBytes, CrcMaxLen)
    \cup {[k \in 1..(MAX_PACKET_SIZE - 1) |-> (7 * k) % U8]}

InitCrc == InitState /\ scenario = "crc" /\ crc_data \in CrcInputs /\ crc_out = 0

\* The state handed to executeCommand / processPacket / parseByte.
St == [flag |-> g_interrupt_flag, en |-> g_log_enabled, ta |-> timedAction,
       q |-> cmdQueue, lg |-> logger, t |-> now,
       hid |-> <<>>, ev |-> "none", ack |-> <<>>]

\* What the main loop leaves alone in every step.
EnvUnchanged ==
    UNCHANGED <<last_button_press, now, pending, scenario, nSent, nPress, nTick, accepted,
                crc_data, crc_out>>

\* ------------------------------------------------------------ environment
\* Where the host's transmission of f may pause: nowhere, after SYNC and LEN, or
\* before the last byte.
Cuts(f) == {Len(f)} \cup {k \in {2, Len(f) - 1} : 0 < k /\ k < Len(f)}

\* The host sends its next frame (or stray bytes); the bytes up to the pause have
\* arrived.  Only the receive loop looks at the line, so arrivals are taken there.
HostSend ==
    /\ pc = "rx" /\ wire = <<>> /\ pending = <<>>
    /\ nSent < SendBudget(scenario)
    /\ \E f \in HostItems(scenario, nSent + 1) : \E k \in Cuts(f) :
          /\ wire' = SubSeq(f, 1, k)
          /\ pending' = SubSeq(f, k + 1, Len(f))
    /\ nSent' = nSent + 1
    /\ UNCHANGED <<pc, g_interrupt_flag, g_log_enabled, last_button_press, cmdQueue,
                   rx_buffer, rx_state, rx_len, rx_idx, timedAction, logger,
                   last_stats_time, cur, i, now, scenario, nPress, nTick,
                   ackOut, hidOut, ev, accepted, intAcks, crc_data, crc_out>>

\* The rest of the frame arrives.
Arrive ==
    /\ pc = "rx" /\ wire = <<>> /\ pending # <<>>
    /\ wire' = pending
    /\ pending' = <<>>
    /\ UNCHANGED <<pc, g_interrupt_flag, g_log_enabled, last_button_press, cmdQueue,
                   rx_buffer, rx_state, rx_len, rx_idx, timedAction, logger,
                   last_stats_time, cur, i, now, scenario, nSent, nPress, nTick,
                   ackOut, hidOut, ev, accepted, intAcks, crc_data, crc_out>>

Tick ==
    /\ nTick < TickBudget(scenario)
    /\ \E d \in TickSteps(scenario) : now' = Add32(now, d)
    /\ nTick' = nTick + 1
    /\ UNCHANGED <<pc, g_interrupt_flag, g_log_enabled, last_button_press, cmdQueue,
                   rx_buffer, rx_state, rx_len, rx_idx, timedAction, logger,
                   last_stats_time, cur, i, wire, pending, scenario, nSent, nPress,
                   ackOut, hidOut, ev, accepted, intAcks, crc_data, crc_out>>

\* ---------------------------------------------------------------- buttonISR
\* (mutant) the debounce test with >= in place of >
DebouncedInclusive(current_time, last) ==
    Ge32(Diff32(current_time, last), BUTTON_DEBOUNCE_MS)

Debounced(current_time, last) == Gt32(Diff32(current_time, last), BUTTON_DEBOUNCE_MS)

buttonISR ==
    /\ nPress < PressBudget(scenario)
    /\ nPress' = nPress + 1
    /\ IF Debounced(now, last_button_press)
       THEN /\ g_interrupt_flag' = TRUE
            /\ last_button_press' = now
            /\ accepted' = accepted + 1
       ELSE UNCHANGED <<g_interrupt_flag, last_button_press, accepted>>
    /\ UNCHANGED <<pc, g_log_enabled, cmdQueue, rx_buffer, rx_state, rx_len, rx_idx,
                   timedAction, logger, last_stats_time, cur, i, now, wire, pending,
                   scenario, nSent, nTick, ackOut, hidOut, ev, intAcks, crc_data, crc_out>>

\* --------------------------------------------------------------------- loop
\* 1. the interrupt block, up to and including sendAck(ACK_INTERRUPTED)
\* (mutant) a service that also resets the frame parser
IntServiceResetsParser ==
    /\ pc = "int"
    /\ IF g_interrupt_flag
       THEN LET a == sendAck(logger, g_log_enabled, ACK_INTERRUPTED)
            IN  /\ cmdQueue' = clear(cmdQueue)
                /\ hidOut' = <<HidCall("Keyboard", "releaseAll", <<>>),
                               HidCall("Mouse", "release", <<MOUSE_ALL>>)>>
                              \o (IF timedAction.active
                                  THEN <<ReleaseTimed(timedAction)>> ELSE <<>>)
                /\ timedAction' = [timedAction EXCEPT !.active = FALSE]
                /\ ackOut' = a.out
                /\ logger' = a.logger
                /\ intAcks' = intAcks + 1
                /\ ev' = "int_service"
                /\ pc' = "intclr"
                /\ rx_state' = 0 /\ rx_idx' = 0 /\ rx_buffer' = <<>>
       ELSE /\ pc' = "timed"
            /\ ackOut' = <<>> /\ hidOut' = <<>> /\ ev' = "none"
            /\ UNCHANGED <<cmdQueue, timedAction, logger, intAcks,
                           rx_state, rx_idx, rx_buffer>>
    /\ UNCHANGED <<g_interrupt_flag, g_log_enabled, rx_len,
                   last_stats_time, cur, i, wire>>
    /\ EnvUnchanged

IntService ==
    /\ pc = "int"
    /\ IF g_interrupt_flag
       THEN LET a == sendAck(logger, g_log_enabled, ACK_INTERRUPTED)
            IN  /\ cmdQueue' = clear(cmdQueue)
                /\ hidOut' = <<HidCall("Keyboard", "releaseAll", <<>>),
                               HidCall("Mouse", "release", <<MOUSE_ALL>>)>>
                              \o (IF timedAction.active
                                  THEN <<ReleaseTimed(timedAction)>> ELSE <<>>)
                /\ timedAction' = [timedAction EXCEPT !.active = FALSE]
                /\ ackOut' = a.out
                /\ logger' = a.logger
                /\ intAcks' = intAcks + 1
                /\ ev' = "int_service"
                /\ pc' = "intclr"
       ELSE /\ pc' = "timed"
            /\ ackOut' = <<>> /\ hidOut' = <<>> /\ ev' = "none"
            /\ UNCHANGED <<cmdQueue, timedAction, logger, intAcks>>
    /\ UNCHANGED <<g_interrupt_flag, g_log_enabled, rx_buffer, rx_state, rx_len, rx_idx,
                   last_stats_time, cur, i, wire>>
    /\ EnvUnchanged

\*    g_interrupt_flag = false, the block's last statement
IntClear ==
    /\ pc = "intclr"
    /\ g_interrupt_flag' = FALSE
    /\ pc' = "timed"
    /\ ackOut' = <<>> /\ hidOut' = <<>> /\ ev' = "int_clear"
    /\ UNCHANGED <<g_log_enabled, cmdQueue, rx_buffer, rx_state, rx_len, rx_idx,
                   timedAction, logger, last_stats_time, cur, i, wire, intAcks>>
    /\ EnvUnchanged

\* 2. the timed action's deadline
\* (mutant) a deadline test that never succeeds
ExpiredNever(ta, t) == FALSE

Expired(ta, t) == Ge32(Diff32(t, ta.start_time), ta.duration_ms)

TimedCheck ==
    /\ pc = "timed"
    /\ IF timedAction.active /\ Expired(timedAction, now)
       THEN /\ hidOut' = <<ReleaseTimed(timedAction)>>
            /\ timedAction' = [timedAction EXCEPT !.active = FALSE]
            /\ ev' = "timed_end"
       ELSE /\ hidOut' = <<>> /\ ev' = "none"
            /\ UNCHANGED timedAction
    /\ pc' = "rx"
    /\ ackOut' = <<>>
    /\ UNCHANGED <<g_interrupt_flag, g_log_enabled, cmdQueue, rx_buffer, rx_state, rx_len,
                   rx_idx, logger, last_stats_time, cur, i, wire, intAcks>>
    /\ EnvUnchanged

\* 3. one byte of the receive loop
RxByte ==
    /\ pc = "rx" /\ wire # <<>>
    /\ \E r \in {parseByte(St, rx_state, rx_len, rx_idx, rx_buffer, Head(wire))} :
           /\ rx_state' = r.rx_state /\ rx_len' = r.rx_len
           /\ rx_idx' = r.rx_idx /\ rx_buffer' = r.rx_buffer
           /\ g_log_enabled' = r.st.en
           /\ cmdQueue' = r.st.q
           /\ timedAction' = r.st.ta
           /\ logger' = r.st.lg
           /\ ackOut' = r.st.ack /\ hidOut' = r.st.hid /\ ev' = r.st.ev
    /\ wire' = Tail(wire)
    /\ UNCHANGED <<pc, g_interrupt_flag, last_stats_time, cur, i, intAcks>>
    /\ EnvUnchanged

\*    Serial.available() == 0: the loop ends
RxExit ==
    /\ pc = "rx" /\ wire = <<>>
    /\ pc' = "exec"
    /\ ackOut' = <<>> /\ hidOut' = <<>> /\ ev' = "none"
    /\ UNCHANGED <<g_interrupt_flag, g_log_enabled, cmdQueue, rx_buffer, rx_state, rx_len,
                   rx_idx, timedAction, logger, last_stats_time, cur, i, wire, intAcks>>
    /\ EnvUnchanged

\* 4. the executor
\* (mutant) the executor's guard without the TimedAction test
ExecGuardNoTimed(ta, q) == ~isEmpty(q)

ExecGuard(ta, q) == ~ta.active /\ ~isEmpty(q)

\* (mutant) the popped command runs without executeCommand's interrupt test
ExecStepNoFlag ==
    /\ pc = "exec"
    /\ IF ExecGuard(timedAction, cmdQueue)
       THEN LET p == pop(cmdQueue)
                r == executeCommand([St EXCEPT !.q = p.q, !.flag = FALSE], p.packet)
            IN  /\ cmdQueue' = r.q
                /\ g_log_enabled' = r.en
                /\ timedAction' = r.ta
                /\ logger' = r.lg
                /\ hidOut' = r.hid /\ ev' = r.ev
                /\ IF r.ev = "print"
                   THEN pc' = "print" /\ cur' = p.packet /\ i' = 0
                   ELSE pc' = "stats" /\ UNCHANGED <<cur, i>>
       ELSE /\ pc' = "stats" /\ hidOut' = <<>> /\ ev' = "none"
            /\ UNCHANGED <<cmdQueue, g_log_enabled, timedAction, logger, cur, i>>
    /\ ackOut' = <<>>
    /\ UNCHANGED <<g_interrupt_flag, rx_buffer, rx_state, rx_len, rx_idx,
                   last_stats_time, wire, intAcks>>
    /\ EnvUnchanged

ExecStep ==
    /\ pc = "exec"
    /\ IF ExecGuard(timedAction, cmdQueue)
       THEN LET p == pop(cmdQueue)
            IN  IF p.ok
                THEN LET r == executeCommand([St EXCEPT !.q = p.q], p.packet)
                     IN  /\ cmdQueue' = r.q
                         /\ g_log_enabled' = r.en
                         /\ timedAction' = r.ta
                         /\ logger' = r.lg
                         /\ hidOut' = r.hid /\ ev' = r.ev
                         /\ IF r.ev = "print"
                            THEN pc' = "print" /\ cur' = p.packet /\ i' = 0
                            ELSE pc' = "stats" /\ UNCHANGED <<cur, i>>
                ELSE /\ pc' = "stats" /\ hidOut' = <<>> /\ ev' = "none"
                     /\ UNCHANGED <<cmdQueue, g_log_enabled, timedAction, logger, cur, i>>
       ELSE /\ pc' = "stats" /\ hidOut' = <<>> /\ ev' = "none"
            /\ UNCHANGED <<cmdQueue, g_log_enabled, timedAction, logger, cur, i>>
    /\ ackOut' = <<>>
    /\ UNCHANGED <<g_interrupt_flag, rx_buffer, rx_state, rx_len, rx_idx,
                   last_stats_time, wire, intAcks>>
    /\ EnvUnchanged

\*    KB_PRINT's for loop: the loop condition and the `if (g_interrupt_flag) break`
\*    of one pass.  The button interrupt can arrive between this test and the
\*    Keyboard.write that follows it, so the write is a step of its own.
\* (mutant) the loop without its interrupt test
PrintStepNoCancel ==
    /\ pc = "print"
    /\ IF i < cur.param_len
       THEN /\ pc' = "write" /\ ev' = "print_next"
            /\ UNCHANGED <<cur, i>>
       ELSE /\ pc' = "stats" /\ ev' = "print_done"
            /\ cur' = NoPacket /\ i' = 0
    /\ ackOut' = <<>> /\ hidOut' = <<>>
    /\ UNCHANGED <<g_interrupt_flag, g_log_enabled, cmdQueue, rx_buffer, rx_state, rx_len,
                   rx_idx, timedAction, logger, last_stats_time, wire, intAcks>>
    /\ EnvUnchanged

PrintStep ==
    /\ pc = "print"
    /\ IF i < cur.param_len /\ ~g_interrupt_flag
       THEN /\ pc' = "write" /\ ev' = "print_next"
            /\ UNCHANGED <<cur, i>>
       ELSE /\ pc' = "stats"
            /\ ev' = IF i < cur.param_len THEN "print_break" ELSE "print_done"
            /\ cur' = NoPacket /\ i' = 0
    /\ ackOut' = <<>> /\ hidOut' = <<>>
    /\ UNCHANGED <<g_interrupt_flag, g_log_enabled, cmdQueue, rx_buffer, rx_state, rx_len,
                   rx_idx, timedAction, logger, last_stats_time, wire, intAcks>>
    /\ EnvUnchanged

\*    Keyboard.write(params[i]) and the loop's i++
PrintWrite ==
    /\ pc = "write"
    /\ hidOut' = <<HidCall("Keyboard", "write", <<cur.params[i + 1]>>)>>
    /\ i' = (i + 1) % U8
    /\ pc' = "print" /\ ev' = "print_write"
    /\ ackOut' = <<>>
    /\ UNCHANGED <<g_interrupt_flag, g_log_enabled, cmdQueue, rx_buffer, rx_state, rx_len,
                   rx_idx, timedAction, logger, last_stats_time, cur, wire, intAcks>>
    /\ EnvUnchanged

\* 5. the statistics timer
StatsDue(t, last) == Gt32(Diff32(t, last), STATS_INTERVAL)

StatsStep ==
    /\ pc = "stats"
    /\ IF StatsDue(now, last_stats_time)
       THEN /\ logger' = logStats(logger, g_log_enabled)
            /\ last_stats_time' = now
            /\ ev' = "stats"
       ELSE /\ ev' = "none"
            /\ UNCHANGED <<logger, last_stats_time>>
    /\ pc' = "int"
    /\ ackOut' = <<>> /\ hidOut' = <<>>
    /\ UNCHANGED <<g_interrupt_flag, g_log_enabled, cmdQueue, rx_buffer, rx_state, rx_len,
                   rx_idx, timedAction, cur, i, wire, intAcks>>
    /\ EnvUnchanged

Next ==
    \/ HostSend \/ Arrive \/ Tick \/ buttonISR
    \/ IntService \/ IntClear \/ TimedCheck \/ RxByte \/ RxExit
    \/ ExecStep \/ PrintStep \/ PrintWrite \/ StatsStep

Spec == Init /\ [][Next]_vars

SpecParser == InitParser /\ [][Next]_vars

SpecFill == InitFill /\ [][Next]_vars

SpecButton == InitButton /\ [][Next]_vars

SpecTimed == InitTimed /\ [][Next]_vars

SpecStats == InitStats /\ [][Next]_vars

\* The main loop keeps running: loop() is called again whenever it returns and
\* no step of it waits.
LoopStep ==
    \/ IntService \/ IntClear \/ TimedCheck \/ RxByte \/ RxExit
    \/ ExecStep \/ PrintStep \/ PrintWrite \/ StatsStep

SpecLive == Init /\ [][Next]_vars /\ WF_vars(LoopStep)

\* crc8 on its own: one call on the input chosen at the start.
Crc8Call ==
    /\ scenario = "crc" /\ ev = "none"
    /\ crc_out' = crc8(crc_data, Len(crc_data))
    /\ ev' = "crc8"
    /\ UNCHANGED <<pc, g_interrupt_flag, g_log_enabled, last_button_press, cmdQueue,
                   rx_buffer, rx_state, rx_len, rx_idx, timedAction, logger,
                   last_stats_time, cur, i, now, wire, pending, scenario, nSent, nPress,
                   nTick, ackOut, hidOut, accepted, intAcks, crc_data>>

NextCrc == Crc8Call

SpecCrc == InitCrc /\ [][NextCrc]_vars

\* ===================================================================== claims
\* A step of the main loop (not of the host, the clock or the ISR).
MainStep == UNCHANGED <<nSent, nPress, nTick, pending>>

Range(seq) == {seq[k] : k \in 1..Len(seq)}

\* The next byte read completes a frame: a LEN byte out of 1..31, or the byte
\* after the LEN payload bytes.
AtLenByte == pc = "rx" /\ wire # <<>> /\ rx_state = 1
AtLastByte == pc = "rx" /\ wire # <<>> /\ rx_state = 2 /\ rx_idx = rx_len
FrameCompletes == (AtLenByte /\ Head(wire) \notin 1..31) \/ AtLastByte

\* At AtLastByte: the payload on the wire, and whether the byte after it is its CRC.
WirePayload == SubSeq(rx_buffer, 1, rx_len)
WireCrcValid == crc8(WirePayload, rx_len) = Head(wire)

\* The slots of q holding the commands admitted and not yet consumed.
Live(q) == {(q.head + k) % QUEUE_SIZE : k \in 0..(q.count - 1)}

\* ---------------------------------------------------------------------- C1
\* C1: when the main loop has serviced a pending button interrupt, the queue is
\* empty, the TimedAction slot is inactive, Keyboard.releaseAll and
\* Mouse.release(LEFT|RIGHT|MIDDLE) have been called, and a TimedAction that
\* was active has had its target released through the device of its kind.
C1_Serviced == pc = "int" /\ g_interrupt_flag /\ pc' = "intclr"

C1_InterruptServiceClearsEverything ==
    [][C1_Serviced =>
        /\ isEmpty(cmdQueue') /\ size(cmdQueue') = 0
        /\ ~timedAction'.active
        /\ HidCall("Keyboard", "releaseAll", <<>>) \in Range(hidOut')
        /\ HidCall("Mouse", "release", <<7>>) \in Range(hidOut')
        /\ timedAction.active =>
              HidCall(IF timedAction.action_type = 0 THEN "Mouse" ELSE "Keyboard",
                      "release", <<timedAction.button_or_key>>) \in Range(hidOut')]_vars

\* A service that found a keyboard hold active and released it.
C1_Witness ==
    /\ pc = "intclr" /\ ev = "int_service"
    /\ Len(hidOut) = 3 /\ hidOut[3] = HidCall("Keyboard", "release", <<65>>)
    /\ isEmpty(cmdQueue) /\ ~timedAction.active

\* ---------------------------------------------------------------------- C2
\* C2: every CRC-valid PAUSE_LOG, RESUME_LOG or CLEAR_QUEUE frame has taken
\* effect by the time its ACK_SUCCESS is sent: logging_enabled is false / true /
\* the queue is empty, whatever the queue, the TimedAction and the interrupt flag.
C2_ControlFrame(cmd) == AtLastByte /\ WireCrcValid /\ rx_buffer[1] = cmd

C2_ControlTakesEffectImmediately ==
    [][(MainStep /\ \E c \in {CMD_PAUSE_LOG, CMD_RESUME_LOG, CMD_CLEAR_QUEUE} :
                        C2_ControlFrame(c)) =>
        /\ ackOut' = <<ACK_SUCCESS>>
        /\ C2_ControlFrame(CMD_PAUSE_LOG) => ~g_log_enabled'
        /\ C2_ControlFrame(CMD_RESUME_LOG) => g_log_enabled'
        /\ C2_ControlFrame(CMD_CLEAR_QUEUE) => isEmpty(cmdQueue')]_vars

\* ---------------------------------------------------------------------- C3
\* C3: every button event the debouncer accepts produces exactly one
\* ACK_INTERRUPTED: once nothing is pending (the flag is clear), as many 0xF4
\* bytes have been sent as events were accepted.
C3_OneAckPerAcceptedEvent == ~g_interrupt_flag => intAcks = accepted

\* ---------------------------------------------------------------------- C4
\* C4: the step that reads the last byte of a frame (a bad LEN byte, or the byte
\* after the payload) writes exactly one ACK out of SUCCESS, CRC_ERROR,
\* PARAM_ERROR; no other step of the main loop writes one of these.  The ACK
\* is written in the step that completes the frame, so ACKs leave in the order
\* the frames complete.
SolicitedAcks == {ACK_SUCCESS, ACK_CRC_ERROR, ACK_PARAM_ERROR}

C4_OneSolicitedAckPerFrame ==
    [][MainStep =>
        IF FrameCompletes
        THEN Len(ackOut') = 1 /\ ackOut'[1] \in SolicitedAcks
        ELSE Range(ackOut') \cap SolicitedAcks = {}]_vars

\* A frame was acknowledged while logging was paused.
C4_Witness == Len(ackOut) = 1 /\ ackOut[1] \in SolicitedAcks /\ ~g_log_enabled
              /\ ev \in {"admit", "crc_err", "len_bad"}

\* ---------------------------------------------------------------------- C5
\* C5: the queue size stays within 0..16; isEmpty holds exactly when the size is
\* 0 and isFull exactly when it is 16.
C5_QueueSizeBounded ==
    /\ size(cmdQueue) \in 0..16
    /\ isEmpty(cmdQueue) <=> size(cmdQueue) = 0
    /\ isFull(cmdQueue) <=> size(cmdQueue) = 16

\* The queue is full again after commands were popped: the ring has wrapped.
C5_Witness == isFull(cmdQueue) /\ cmdQueue.head > 0 /\ cmdQueue.tail = cmdQueue.head

\* ---------------------------------------------------------------------- C6
\* C6: a TimedAction is started (the slot written) only in a state where
\* timedAction.active is false.
C6_NoTimedStartWhileActive ==
    [][((MainStep /\ ev' = "timed_start")
        \/ (timedAction'.active /\ timedAction' # timedAction)) =>
       ~timedAction.active]_vars

\* A hold is active and the next queued command is another timed press: the
\* executor is about to look at it.
C6_Witness ==
    /\ pc = "exec" /\ timedAction.active /\ ~isEmpty(cmdQueue)
    /\ cmdQueue.queue[cmdQueue.head].cmd \in {CMD_MOUSE_PRESS_TIMED, CMD_KB_PRESS_TIMED}

\* ---------------------------------------------------------------------- C7
\* C7: commands are executed in the order they were admitted.  In the fill
\* scenario the n-th frame has n as its first parameter, so admission order is
\* the order of these numbers: whenever a command is executed, every command still
\* queued has a larger number, and a command is admitted behind smaller ones.
C7_FifoExecution ==
    [][MainStep =>
        /\ (pc = "exec" /\ ev' \in {"exec", "print"}) =>
              \A s \in Live(cmdQueue') :
                  cmdQueue'.queue[s].params[1] >
                      (IF ev' = "print" THEN cur'.params[1] ELSE hidOut'[1].args[1])
        /\ (ev' = "admit" /\ pc = "rx") =>
              \A s \in Live(cmdQueue) :
                  cmdQueue.queue[s].params[1] < cmdQueue'.queue[cmdQueue.tail].params[1]]_vars

\* A command was executed out of a ring whose live part wraps past slot 15.
C7_Witness ==
    /\ ev = "exec" /\ pc = "stats" /\ Len(hidOut) = 1
    /\ cmdQueue.count > 0 /\ cmdQueue.tail < cmdQueue.head

\* ---------------------------------------------------------------------- C8
\* C8: a CRC-valid data-plane frame is dropped with ACK_PARAM_ERROR and the queue
\* unchanged when the queue holds 16 commands; otherwise its command is put at
\* the tail, the size grows by one and ACK_SUCCESS is sent.
C8_DataFrame == AtLastByte /\ WireCrcValid /\ ~IsControl(rx_buffer[1])

C8_Admission ==
    [][(MainStep /\ C8_DataFrame) =>
        IF size(cmdQueue) = 16
        THEN cmdQueue' = cmdQueue /\ ackOut' = <<ACK_PARAM_ERROR>>
        ELSE /\ size(cmdQueue') = size(cmdQueue) + 1
             /\ cmdQueue'.head = cmdQueue.head
             /\ cmdQueue'.tail = (cmdQueue.tail + 1) % 16
             /\ cmdQueue'.queue[cmdQueue.tail] =
                    [cmd |-> rx_buffer[1], params |-> SubSeq(rx_buffer, 2, rx_len),
                     param_len |-> rx_len - 1]
             /\ \A s \in Live(cmdQueue) : cmdQueue'.queue[s] = cmdQueue.queue[s]
             /\ ackOut' = <<ACK_SUCCESS>>]_vars

\* The 17th frame in a row, none executed yet, was refused.
C8_Witness ==
    /\ nSent = 17 /\ ev = "full" /\ ackOut = <<ACK_PARAM_ERROR>>
    /\ size(cmdQueue) = 16 /\ cmdQueue.head = 0
    /\ \A s \in 0..15 : cmdQueue.queue[s].params = <<s + 1>>

\* ---------------------------------------------------------------------- C9
\* C9: a payload is handed to the dispatcher exactly when crc8 over its LEN
\* bytes equals the byte after them; on a mismatch ACK_CRC_ERROR is sent, the
\* queue, the TimedAction and logging_enabled are unchanged and no HID call is
\* made; either way the parser is back in S_SYNC.
Dispatched == {"admit", "full", "pause", "resume", "clear", "skip", "empty"}

C9_CrcGatesDispatch ==
    [][(MainStep /\ AtLastByte) =>
        /\ rx_state' = 0
        /\ (ev' \in Dispatched) <=> WireCrcValid
        /\ ~WireCrcValid =>
              /\ ev' = "crc_err" /\ ackOut' = <<ACK_CRC_ERROR>>
              /\ UNCHANGED <<cmdQueue, timedAction, g_log_enabled>>
              /\ hidOut' = <<>>]_vars

\* A frame was refused for its CRC while a command was waiting in the queue.
C9_Witness == ev = "crc_err" /\ ackOut = <<ACK_CRC_ERROR>> /\ rx_state = 0
              /\ ~isEmpty(cmdQueue)

\* --------------------------------------------------------------------- C10
\* C10: in S_LEN, for every byte value L: L = 0 or L > 31 sends ACK_PARAM_ERROR,
\* leaves the queue alone and returns to S_SYNC; L in 1..31 sends nothing,
\* records rx_len = L and enters S_PAYLOAD with index 0.  Checked for all 256
\* values of L in every reachable state in which the parser waits for LEN.
C10_LengthByte ==
    (pc = "rx" /\ rx_state = 1) =>
        \A L \in 0..255 :
            LET r == parseByte(St, rx_state, rx_len, rx_idx, rx_buffer, L)
            IN  IF L = 0 \/ L > 31
                THEN /\ r.st.ack = <<ACK_PARAM_ERROR>>
                     /\ r.st.q = cmdQueue
                     /\ r.rx_state = 0
                ELSE /\ r.st.ack = <<>>
                     /\ r.rx_len = L /\ r.rx_state = 2 /\ r.rx_idx = 0
                     /\ r.st.q = cmdQueue

\* A second 0xAA was read as the length and refused.
C10_Witness ==
    /\ ev = "len_bad" /\ rx_len = SYNC_BYTE /\ rx_state = 0
    /\ ackOut = <<ACK_PARAM_ERROR>>

\* --------------------------------------------------------------------- C11
\* C11: while the parser is in S_SYNC, a byte other than 0xAA is discarded: the
\* receive step on it sends no ACK, makes no HID call, leaves the parser in
\* S_SYNC and leaves the queue, the TimedAction, the interrupt flag and
\* logging_enabled as they are.  Checked for all 255 such bytes in every
\* reachable state in which the parser waits for SYNC; since the state after the
\* byte is again such a state, this holds for any number of bytes.
C11_GarbageDiscarded ==
    (pc = "rx" /\ rx_state = 0) =>
        \A b \in (0..255) \ {170} :
            LET r == parseByte(St, rx_state, rx_len, rx_idx, rx_buffer, b)
            IN  /\ r.st.ack = <<>> /\ r.st.hid = <<>>
                /\ r.rx_state = 0
                /\ r.st.q = cmdQueue /\ r.st.ta = timedAction
                /\ r.st.flag = g_interrupt_flag /\ r.st.en = g_log_enabled

\* A stray byte was read and dropped while a command was waiting in the queue.
C11_Witness ==
    /\ ev = "garbage" /\ rx_state = 0 /\ ackOut = <<>> /\ hidOut = <<>>
    /\ ~isEmpty(cmdQueue) /\ wire = <<>> /\ pc = "rx"

\* --------------------------------------------------------------------- C12
\* C12: the value of logging_enabled (and of the logger's counters, which
\* follow it) has no influence on the protocol.  In every reachable state, each
\* step of the main loop that reads g_log_enabled, run from the same state with
\* the other value of g_log_enabled and other counters, sends the same ACK
\* bytes, makes the same HID calls and leaves the same queue, parser,
\* TimedAction and flag; the steps of which this is checked are the interrupt
\* service, the receive step on the byte that is next on the line and the
\* executor's executeCommand.  Two runs on the same inputs that differ in logging_enabled
\* therefore stay equal in all of these, step by step.
C12_Other(st) == [st EXCEPT !.en = ~st.en, !.lg = reset_counter(st.lg)]

C12_Protocol(st) == [flag |-> st.flag, ta |-> st.ta, q |-> st.q, hid |-> st.hid,
                     ev |-> st.ev, ack |-> st.ack]

C12_SameParse(st1, st2, b) ==
    LET r1 == parseByte(st1, rx_state, rx_len, rx_idx, rx_buffer, b)
        r2 == parseByte(st2, rx_state, rx_len, rx_idx, rx_buffer, b)
        s1 == r1.st
        s2 == r2.st
    IN  /\ <<r1.rx_state, r1.rx_len, r1.rx_idx, r1.rx_buffer>> =
               <<r2.rx_state, r2.rx_len, r2.rx_idx, r2.rx_buffer>>
        /\ C12_Protocol(s1) = C12_Protocol(s2)
        /\ (s1.en = s2.en) \/ (s1.en = st1.en /\ s2.en = st2.en)

C12_LoggingDoesNotChangeProtocol ==
    /\ pc = "int" =>
           sendAck(logger, g_log_enabled, ACK_INTERRUPTED).out =
               sendAck(C12_Other(St).lg, ~g_log_enabled, ACK_INTERRUPTED).out
    /\ (pc = "rx" /\ wire # <<>>) => C12_SameParse(St, C12_Other(St), Head(wire))
    /\ (pc = "exec" /\ ExecGuard(timedAction, cmdQueue)) =>
           LET p == pop(cmdQueue)
           IN  C12_Protocol(executeCommand([St EXCEPT !.q = p.q], p.packet)) =
                   C12_Protocol(executeCommand([C12_Other(St) EXCEPT !.q = p.q], p.packet))

\* The button interrupt was serviced and acknowledged while logging was paused.
C12_Witness ==
    /\ ~g_log_enabled /\ pc = "intclr" /\ ev = "int_service"
    /\ ackOut = <<ACK_INTERRUPTED>>

\* --------------------------------------------------------------------- C13
\* C13: a timed hold does not block the main loop.  In every step the loop takes
\* while the TimedAction is active:
\*   - a pending interrupt is serviced and acknowledged;
\*   - the deadline check moves on to the receive loop whether or not the
\*     deadline has passed, and releases the target only when it has;
\*   - the receive loop reads the next byte, acknowledges a completed frame with
\*     one ACK, admits a CRC-valid data-plane command when the queue has room,
\*     and treats every frame (control-plane frames included) exactly as it
\*     would with the slot inactive;
\*   - the executor takes nothing from the queue and moves on;
\* and no step of the loop changes the clock.
C13_Idle(st) == [st EXCEPT !.ta = [st.ta EXCEPT !.active = FALSE]]

C13_TimedHoldDoesNotBlock ==
    [][(MainStep /\ timedAction.active) =>
        /\ now' = now
        /\ (pc = "int" /\ g_interrupt_flag) =>
              pc' = "intclr" /\ ackOut' = <<ACK_INTERRUPTED>>
        /\ pc = "timed" =>
              /\ pc' = "rx"
              /\ timedAction'.active <=> ~Expired(timedAction, now)
        /\ (pc = "rx" /\ wire # <<>>) =>
              LET r == parseByte(C13_Idle(St), rx_state, rx_len, rx_idx, rx_buffer,
                                 Head(wire))
              IN  /\ wire' = Tail(wire)
                  /\ FrameCompletes => Len(ackOut') = 1
                  /\ (C8_DataFrame /\ ~isFull(cmdQueue)) =>
                        /\ size(cmdQueue') = size(cmdQueue) + 1
                        /\ ackOut' = <<ACK_SUCCESS>>
                  /\ ackOut' = r.st.ack /\ cmdQueue' = r.st.q
                  /\ g_log_enabled' = r.st.en /\ rx_state' = r.rx_state
                  /\ timedAction' = timedAction
        /\ pc = "exec" =>
              pc' = "stats" /\ cmdQueue' = cmdQueue /\ hidOut' = <<>>]_vars

\* A data-plane frame was admitted and acknowledged while a hold was active and
\* its deadline had not passed.
C13_Witness ==
    /\ timedAction.active /\ ~Expired(timedAction, now)
    /\ ev = "admit" /\ ackOut = <<ACK_SUCCESS>> /\ size(cmdQueue) = 1

\* --------------------------------------------------------------------- C14
\* C14 as stated: once the interrupt flag is set during a KB_PRINT, no further
\* byte of it is written.
C14_NoWriteOnceFlagSet ==
    [][(MainStep /\ pc \in {"print", "write"} /\ g_interrupt_flag) => hidOut' = <<>>]_vars

\* C14, amended: KB_PRINT writes its parameter bytes in order from the first
\* (byte i + 1 is written when i bytes have been), so what is written is always
\* a prefix; the loop's test, once it finds the flag set, ends the loop without
\* a write, so that after the flag is set at most one more byte is written: the
\* one whose test had already passed.  The flag stays set until the interrupt
\* service, which sends ACK_INTERRUPTED once, calls Keyboard.releaseAll and
\* then clears the flag without another ACK.
C14_PrintCancelledAfterAtMostOneByte ==
    [][MainStep =>
        /\ (pc = "exec" /\ ev' = "print") =>
              pc' = "print" /\ i' = 0 /\ cur'.cmd = CMD_KB_PRINT /\ hidOut' = <<>>
        /\ pc = "print" =>
              /\ hidOut' = <<>>
              /\ g_interrupt_flag => pc' = "stats"
              /\ pc' = "write" => i < cur.param_len
        /\ pc = "write" =>
              /\ hidOut' = <<HidCall("Keyboard", "write", <<cur.params[i + 1]>>)>>
              /\ i' = i + 1 /\ cur' = cur /\ pc' = "print"
        /\ (pc \in {"print", "write", "stats"} /\ g_interrupt_flag) =>
              g_interrupt_flag' /\ ackOut' = <<>>
        /\ (pc = "stats" /\ ev = "print_break") => pc' = "int"
        /\ (pc = "int" /\ g_interrupt_flag) =>
              /\ ackOut' = <<ACK_INTERRUPTED>>
              /\ HidCall("Keyboard", "releaseAll", <<>>) \in Range(hidOut')
              /\ pc' = "intclr"
        /\ pc = "intclr" => ackOut' = <<>> /\ ~g_interrupt_flag']_vars

\* A KB_PRINT was cut short: its loop ended on the flag with bytes left.
C14_Witness ==
    /\ ev = "print_break" /\ pc = "stats" /\ g_interrupt_flag
    /\ hidOut = <<>> /\ ackOut = <<>>

\* --------------------------------------------------------------------- C15
\* C15: the receive step that completes a CRC-valid CLEAR_QUEUE frame, in any
\* state, leaves the queue empty, sends ACK_SUCCESS, makes no HID call (none of
\* the discarded commands is executed) and leaves the TimedAction slot and
\* logging_enabled unchanged; the emptied queue takes a push and gives it back
\* on the next pop, as a fresh queue does.
C15_ClearQueueEmptiesQueue ==
    [][(MainStep /\ C2_ControlFrame(CMD_CLEAR_QUEUE)) =>
        /\ isEmpty(cmdQueue') /\ size(cmdQueue') = 0
        /\ ackOut' = <<ACK_SUCCESS>>
        /\ hidOut' = <<>>
        /\ UNCHANGED <<timedAction, g_log_enabled>>
        /\ LET p == [cmd |-> CMD_MOUSE_CLICK, params |-> <<1>>, param_len |-> 1]
               a == push(cmdQueue', p)
           IN  a.ok /\ size(a.q) = 1 /\ pop(a.q).ok /\ pop(a.q).packet = p
                    /\ isEmpty(pop(a.q).q)]_vars

\* --------------------------------------------------------------------- C16
\* C16: log control is set-style.  The receive step that completes a CRC-valid
\* RESUME_LOG frame leaves logging_enabled true, from any state, and so from the
\* state a PAUSE_LOG frame has left; the one that completes a PAUSE_LOG frame
\* when logging is already paused leaves it paused; each of these frames sends
\* ACK_SUCCESS and leaves the queue and the TimedAction slot unchanged.
C16_LogControlSetStyle ==
    [][(MainStep /\ (C2_ControlFrame(CMD_PAUSE_LOG) \/ C2_ControlFrame(CMD_RESUME_LOG))) =>
        /\ C2_ControlFrame(CMD_RESUME_LOG) => g_log_enabled'
        /\ (C2_ControlFrame(CMD_PAUSE_LOG) /\ ~g_log_enabled) => ~g_log_enabled'
        /\ ackOut' = <<ACK_SUCCESS>>
        /\ UNCHANGED <<cmdQueue, timedAction>>]_vars

\* --------------------------------------------------------------------- C17
\* C17: a queued command leaves the queue exactly once.  The executor takes the
\* command at the head, the size drops by one and the head moves on, so the
\* command cannot be taken again; a command with valid opcode and arity then
\* gets its one HID call (MOUSE_MOVE 05 FB 00 gives Mouse.move(5, -5, 0));
\* the queue shrinks in no other way than by the executor, a CLEAR_QUEUE or
\* the interrupt service, and these two make no HID call for what they
\* discard.  And, the main loop running (SpecLive) and the clock reaching the
\* deadline of every hold, a queue that is not empty becomes empty (the host
\* sends finitely many frames).
C17_Dequeued == {"exec", "timed_start", "print", "drop", "invalid", "skip"}

C17_ClockAdvances == []<>(~timedAction.active \/ Expired(timedAction, now))

C17_ExecutedOnceOrDiscarded ==
    /\ [][MainStep =>
            /\ (pc = "exec" /\ ev' \in C17_Dequeued) =>
                  LET c == cmdQueue.queue[cmdQueue.head]
                  IN  /\ size(cmdQueue') = size(cmdQueue) - 1
                      /\ cmdQueue'.head = (cmdQueue.head + 1) % 16
                      /\ cmdQueue.head \notin Live(cmdQueue')
                      /\ ev' \in {"exec", "timed_start"} => Len(hidOut') = 1
                      /\ (c.cmd = CMD_MOUSE_MOVE /\ c.params = <<5, 251, 0>> /\ ev' # "skip") =>
                            hidOut' = <<HidCall("Mouse", "move", <<5, -5, 0>>)>>
            /\ size(cmdQueue') < size(cmdQueue) =>
                  \/ pc = "exec" /\ ev' \in C17_Dequeued
                  \/ ev' = "clear" /\ hidOut' = <<>>
                  \/ ev' = "int_service" /\ \A h \in Range(hidOut') : h.op \in {"release", "releaseAll"}
            /\ (pc # "exec" /\ pc # "write") =>
                  \A h \in Range(hidOut') : h.op \in {"release", "releaseAll"}]_vars
    /\ C17_ClockAdvances => (~isEmpty(cmdQueue) ~> isEmpty(cmdQueue))

\* MOUSE_MOVE 05 FB 00 was executed and the queue is empty again.
C17_Witness ==
    /\ pc = "stats" /\ ev = "exec"
    /\ hidOut = <<HidCall("Mouse", "move", <<5, -5, 0>>)>>
    /\ isEmpty(cmdQueue)

\* --------------------------------------------------------------------- C18
\* The bit-by-bit references, from the spec's parameters: initial value 0, no
\* final xor; MSB-first (not reflected) with polynomial 0x31, and LSB-first
\* (reflected) with the same polynomial, whose reflected form is 0x8C.
C18_MsbFirstBit(c) == IF c >= 128 THEN Xor8((2 * c) % 256, 49) ELSE (2 * c) % 256

C18_LsbFirstBit(c) == IF c % 2 = 1 THEN Xor8(c \div 2, 140) ELSE c \div 2

\* (the tests on next make TLC compute it before the recursive call)
RECURSIVE C18_Bits(_, _, _)
C18_Bits(c, n, reflected) ==
    IF n = 0 THEN c
    ELSE LET next == IF reflected THEN C18_LsbFirstBit(c) ELSE C18_MsbFirstBit(c)
         IN  IF next \in 0..255 THEN C18_Bits(next, n - 1, reflected) ELSE next

RECURSIVE C18_Reference(_, _, _, _)
C18_Reference(c, d, k, reflected) ==
    IF k > Len(d) THEN c
    ELSE LET next == C18_Bits(Xor8(c, d[k]), 8, reflected)
         IN  IF next \in 0..255 THEN C18_Reference(next, d, k + 1, reflected) ELSE next

\* C18 as stated: the table-driven crc8 equals the bit-by-bit MSB-first CRC-8
\* with polynomial 0x31, initial value 0 and no final xor.
C18_CrcIsMsbFirstPoly31 ==
    ev = "crc8" => crc_out = C18_Reference(0, crc_data, 1, FALSE)

\* C18, amended: the table-driven crc8 equals the bit-by-bit reflected
\* (LSB-first) CRC-8 with polynomial 0x31 (0x8C reflected), initial value 0 and
\* no final xor, on every input tried: all single bytes, the short sequences
\* and a 31-byte payload.
C18_CrcIsReflectedPoly31 ==
    ev = "crc8" => crc_out = C18_Reference(0, crc_data, 1, TRUE)

\* crc8 of the 31-byte payload has been computed.
C18_Witness == ev = "crc8" /\ Len(crc_data) = 31 /\ crc_out = C18_Reference(0, crc_data, 1, TRUE)

\* --------------------------------------------------------------------- C19
\* C19: the receive step that rejects a frame for a CRC mismatch increments the
\* error counter by exactly one, whatever the value of logging_enabled.
C19_CrcErrorCounted ==
    [][(MainStep /\ AtLastByte /\ ~WireCrcValid) =>
        /\ ackOut' = <<ACK_CRC_ERROR>>
        /\ logger'.error_counter = logger.error_counter + 1]_vars

\* --------------------------------------------------------------------- C20
\* The opcode table's arities, from the spec.
C20_Opcodes ==
    {CMD_MOUSE_MOVE, CMD_MOUSE_PRESS, CMD_MOUSE_RELEASE, CMD_MOUSE_CLICK,
     CMD_MOUSE_PRESS_TIMED, CMD_KB_PRESS, CMD_KB_RELEASE, CMD_KB_WRITE,
     CMD_KB_RELEASE_ALL, CMD_KB_PRINT, CMD_KB_PRESS_TIMED,
     CMD_PAUSE_LOG, CMD_RESUME_LOG, CMD_CLEAR_QUEUE}

C20_Arity(cmd) ==
    CASE cmd \in {CMD_MOUSE_MOVE, CMD_MOUSE_PRESS_TIMED, CMD_KB_PRESS_TIMED} -> {3}
      [] cmd \in {CMD_MOUSE_PRESS, CMD_MOUSE_RELEASE, CMD_MOUSE_CLICK,
                  CMD_KB_PRESS, CMD_KB_RELEASE, CMD_KB_WRITE} -> {1}
      [] cmd = CMD_KB_PRINT -> 1..30
      [] OTHER -> {0}

\* C20: a command whose parameter length is not its opcode's arity is dropped.
\* In every reachable state in which the executor or the receive loop is about
\* to run, for every opcode and every wrong length n in 0..4: executeCommand
\* on the dequeued command (processPacket on the control-plane frame) makes no
\* HID call, leaves the TimedAction slot, logging_enabled and the queue as they
\* are and sends no ACK.
C20_ArityEnforced ==
    (pc \in {"exec", "rx"}) =>
        \A cmd \in C20_Opcodes : \A n \in (0..4) \ C20_Arity(cmd) :
            LET params == [k \in 1..n |-> 1]
                r == IF IsControl(cmd)
                     THEN processPacket(St, <<cmd>> \o params, n + 1)
                     ELSE executeCommand(St, [cmd |-> cmd, params |-> params,
                                              param_len |-> n])
            IN  /\ r.hid = <<>> /\ r.ack = <<>>
                /\ r.ta = timedAction /\ r.en = g_log_enabled /\ r.q = cmdQueue

\* --------------------------------------------------------------------- C21
\* C21: a CRC-valid frame with an opcode outside the 14 defined ones is
\* admitted like a data-plane command (at the tail with ACK_SUCCESS, or
\* refused with ACK_PARAM_ERROR when the queue is full); the executor's step
\* that dequeues it makes no HID call, sends no byte and leaves the TimedAction
\* and the interrupt flag alone; and no step of the loop sends ACK_INVALID_CMD.
C21_UnknownFrame == AtLastByte /\ WireCrcValid /\ rx_buffer[1] \notin C20_Opcodes

C21_UnknownAtHead ==
    /\ pc = "exec" /\ ExecGuard(timedAction, cmdQueue)
    /\ cmdQueue.queue[cmdQueue.head].cmd \notin C20_Opcodes

C21_UnknownOpcodeQueuedThenIgnored ==
    [][MainStep =>
        /\ C21_UnknownFrame =>
              IF isFull(cmdQueue)
              THEN cmdQueue' = cmdQueue /\ ackOut' = <<ACK_PARAM_ERROR>>
              ELSE /\ size(cmdQueue') = size(cmdQueue) + 1
                   /\ cmdQueue'.queue[cmdQueue.tail].cmd = rx_buffer[1]
                   /\ ackOut' = <<ACK_SUCCESS>>
                   /\ hidOut' = <<>>
        /\ C21_UnknownAtHead =>
              /\ size(cmdQueue') = size(cmdQueue) - 1
              /\ hidOut' = <<>> /\ ackOut' = <<>>
              /\ UNCHANGED <<timedAction, g_interrupt_flag>>
        /\ ACK_INVALID_CMD \notin Range(ackOut')]_vars

\* The executor has taken an unknown opcode from the queue and ignored it.
C21_Witness ==
    /\ ev = "invalid" /\ pc = "stats" /\ hidOut = <<>> /\ ackOut = <<>>
    /\ isEmpty(cmdQueue)

\* --------------------------------------------------------------------- C22
\* C22 as stated: the executor takes a command from the queue only when no
\* TimedAction is active, the queue is not empty and the interrupt flag is
\* clear.
C22_DequeueOnlyWithFlagClear ==
    [][(MainStep /\ pc = "exec" /\ size(cmdQueue') < size(cmdQueue)) =>
        /\ ~timedAction.active /\ ~isEmpty(cmdQueue)
        /\ ~g_interrupt_flag]_vars

\* C22, amended: the executor takes a command from the queue only when no
\* TimedAction is active and the queue is not empty, and it takes one whenever
\* both hold; the interrupt flag is not part of the guard.  A command taken
\* while the flag is set is dropped: no HID call, no TimedAction started.
C22_DequeueGuard ==
    [][(MainStep /\ pc = "exec") =>
        /\ (size(cmdQueue') < size(cmdQueue)) <=>
              (~timedAction.active /\ ~isEmpty(cmdQueue))
        /\ size(cmdQueue') < size(cmdQueue) =>
              cmdQueue' = [cmdQueue EXCEPT !.head = (@ + 1) % 16, !.count = @ - 1]
        /\ g_interrupt_flag =>
              hidOut' = <<>> /\ timedAction' = timedAction /\ pc' = "stats"]_vars

\* A command was taken from the queue with the flag set, and dropped.
C22_Witness ==
    /\ pc = "stats" /\ ev = "skip" /\ g_interrupt_flag
    /\ hidOut = <<>> /\ ackOut = <<>>

\* C23: while interrupt_pending is set and until the main loop services it, no
\* queued command starts executing: the executor makes no HID call and starts no
\* TimedAction.  The only HID calls made in that time belong to an opcode that
\* was already past its flag test: the Keyboard.write KB_PRINT had decided on,
\* and the release of a hold started earlier whose deadline has come.  The flag
\* stays set until the service, which is the first thing the next loop
\* iteration does (no byte is read and no command dequeued by that step), and
\* which does come if the loop keeps running.
C23_InFlight ==
    \/ pc = "write" /\ hidOut' = <<HidCall("Keyboard", "write", <<cur.params[i + 1]>>)>>
    \/ pc = "timed" /\ timedAction.active /\ hidOut' = <<ReleaseTimed(timedAction)>>

C23_Pending == MainStep /\ g_interrupt_flag /\ pc \notin {"int", "intclr"}

C23_NoCommandStartsBeforeService ==
    /\ [][C23_Pending =>
            /\ g_interrupt_flag'
            /\ hidOut' # <<>> => C23_InFlight
            /\ timedAction'.active => timedAction' = timedAction
            /\ pc = "exec" => ev' \in {"skip", "none"} /\ pc' = "stats"
            /\ ackOut' # <<>> => pc = "rx"]_vars
    /\ [][(MainStep /\ g_interrupt_flag /\ pc = "int") =>
            /\ pc' = "intclr" /\ ev' = "int_service"
            /\ ackOut' = <<ACK_INTERRUPTED>>
            /\ wire' = wire /\ rx_idx' = rx_idx /\ rx_state' = rx_state
            /\ cmdQueue' = clear(cmdQueue)]_vars
    /\ [][(pc' = "int" /\ pc # "int") => pc = "stats"]_vars
    /\ (g_interrupt_flag ~> (ev = "int_service"))

C23_Witness ==
    /\ g_interrupt_flag /\ pc = "stats" /\ ev = "skip"
    /\ ~timedAction.active /\ ~isEmpty(cmdQueue) /\ hidOut = <<>>

\* C24: buttonISR writes g_interrupt_flag and last_button_press and nothing
\* else, and only when more than 50 ms (unsigned 32-bit difference) have passed
\* since the last accepted edge: then the flag is set and the time recorded.
\* An edge 0..50 ms after the last accepted one changes no state.  The queue,
\* the TimedAction, the parser, the counters and the outputs are never touched.
C24_Edge == nPress' # nPress

C24_Within50 ==
    \E k \in 0..BUTTON_DEBOUNCE_MS : now = Add32(last_button_press, V32(0, k))

C24_IsrWritesOnlyFlagAndTime ==
    [][C24_Edge =>
        /\ IF C24_Within50
           THEN g_interrupt_flag' = g_interrupt_flag
                /\ last_button_press' = last_button_press
           ELSE g_interrupt_flag' = TRUE /\ last_button_press' = now
        /\ UNCHANGED <<pc, g_log_enabled, cmdQueue, rx_buffer, rx_state, rx_len, rx_idx,
                       timedAction, logger, last_stats_time, cur, i, now, wire,
                       ackOut, hidOut, ev, intAcks>>]_vars

\* One edge was accepted 36 ms before millis() wrapped and the other one was
\* not; the clock now stands 50 ms after the accepted edge, past the wrap.
C24_Witness ==
    /\ nPress = 2 /\ accepted = 1
    /\ last_button_press = V32(U16 - 1, U16 - 36)
    /\ now = V32(0, 14)
    /\ ~Debounced(now, last_button_press)

\* C25: without an interrupt service, an active TimedAction is ended only by the
\* deadline test of the main loop, in an iteration where now - start_time >=
\* duration_ms (unsigned 32-bit difference), never earlier, and then always: the
\* target that was pressed is released through Mouse when the hold was started
\* by MOUSE_PRESS_TIMED and through Keyboard when by KB_PRESS_TIMED, and active
\* is false afterwards.  The duration is the two parameter bytes read big-endian.
C25_Early ==
    \E k \in 0..(timedAction.duration_ms - 1) :
        now = Add32(timedAction.start_time, V32(0, k))

C25_Started ==
    LET packet == cmdQueue.queue[cmdQueue.head]
        mouse == packet.cmd = CMD_MOUSE_PRESS_TIMED
    IN  /\ pc = "exec"
        /\ packet.cmd \in {CMD_MOUSE_PRESS_TIMED, CMD_KB_PRESS_TIMED}
        /\ timedAction' = [active |-> TRUE,
                           action_type |-> IF mouse THEN 0 ELSE 1,
                           button_or_key |-> packet.params[1],
                           start_time |-> now,
                           duration_ms |-> packet.params[2] * 256 + packet.params[3]]
        /\ hidOut' = <<HidCall(IF mouse THEN "Mouse" ELSE "Keyboard", "press",
                               <<packet.params[1]>>)>>

C25_TimedReleaseAtDeadline ==
    /\ [][(MainStep /\ timedAction.active /\ ev' # "int_service") =>
            /\ ~timedAction'.active <=> (pc = "timed" /\ ~C25_Early)
            /\ IF timedAction'.active
               THEN timedAction' = timedAction
               ELSE /\ timedAction' = [timedAction EXCEPT !.active = FALSE]
                    /\ hidOut' = <<HidCall(IF timedAction.action_type = 0
                                           THEN "Mouse" ELSE "Keyboard",
                                           "release", <<timedAction.button_or_key>>)>>]_vars
    /\ [][(MainStep /\ ~timedAction.active /\ timedAction'.active) => C25_Started]_vars

\* A keyboard hold of 51 ms started 36 ms before millis() wrapped has just been
\* released, exactly 51 ms later.
C25_Witness ==
    /\ ev = "timed_end" /\ ~timedAction.active
    /\ timedAction.action_type = 1 /\ timedAction.duration_ms = 51
    /\ timedAction.start_time = V32(U16 - 1, U16 - 36) /\ now = V32(0, 15)
    /\ hidOut = <<HidCall("Keyboard", "release", <<65>>)>>

\* C26: a TimedAction that was started becomes inactive again, and only through
\* the deadline test or the interrupt service, provided the main loop keeps
\* running (SpecLive) and the clock gets to the deadline of the hold.  A command
\* that waits in the queue behind the hold does not wait forever: the queue
\* gets shorter than it was while the hold was active (the hold ends and the
\* executor dequeues again, or the queue is cleared).  Behind a hold the queue of
\* the exec scenario holds at most ExecFrames - 1 commands.
C26_ClockAdvances == []<>(~timedAction.active \/ ~C25_Early)

C26_TimedActionEnds ==
    /\ [][(timedAction.active /\ ~timedAction'.active) =>
            ev' \in {"timed_end", "int_service"}]_vars
    /\ C26_ClockAdvances =>
          /\ timedAction.active ~> ~timedAction.active
          /\ \A n \in 1..(ExecFrames - 1) :
                (timedAction.active /\ size(cmdQueue) = n) ~> (size(cmdQueue) < n)

\* The 50 ms hold ended at its deadline, without any interrupt, and the
\* MOUSE_MOVE queued behind it has been executed.
C26_Witness ==
    /\ pc = "stats" /\ ev = "exec" /\ intAcks = 0 /\ ~g_interrupt_flag
    /\ ~timedAction.active /\ timedAction.duration_ms = 50
    /\ now = Add32(timedAction.start_time, V32(0, 51))
    /\ hidOut = <<HidCall("Mouse", "move", <<5, -5, 0>>)>>

\* C27: each time the statistics timer fires (now - last_stats_time > 30000),
\* the three counters packet_counter, success_counter and error_counter are all
\* zero afterwards.
C27_CountersZeroAfterStats ==
    [][(MainStep /\ ev' = "stats") =>
        logger' = [packet_counter |-> 0, error_counter |-> 0, success_counter |-> 0]]_vars

\* C28: the ring buffer stays consistent under every push, pop and clear: head
\* and tail are in 0..15, count in 0..16, and tail = (head + count) mod 16.  No
\* step overwrites a slot between head and tail: a push writes the admitted
\* command into the slot at tail, which is not one of them, and adds this slot;
\* a pop or a clear writes no slot.  So the slots from head to tail hold the
\* admitted commands not yet consumed, oldest first (in the fill scenario the
\* n-th frame carries n: the numbers in these slots increase strictly).
C28_Slot(q, k) == q.queue[(q.head + k) % QUEUE_SIZE]

C28_Consistent(q) ==
    /\ q.head \in 0..(QUEUE_SIZE - 1)
    /\ q.tail \in 0..(QUEUE_SIZE - 1)
    /\ q.count \in 0..QUEUE_SIZE
    /\ q.tail = (q.head + q.count) % QUEUE_SIZE

C28_RingBufferConsistent ==
    /\ [](/\ C28_Consistent(cmdQueue)
          /\ \A k \in 1..(cmdQueue.count - 1) :
                C28_Slot(cmdQueue, k - 1).params[1] < C28_Slot(cmdQueue, k).params[1])
    /\ [][/\ \A s \in Live(cmdQueue) : cmdQueue'.queue[s] = cmdQueue.queue[s]
          /\ size(cmdQueue') > size(cmdQueue) =>
                /\ cmdQueue.tail \notin Live(cmdQueue)
                /\ Live(cmdQueue') = Live(cmdQueue) \cup {cmdQueue.tail}
                /\ cmdQueue'.head = cmdQueue.head
                /\ cmdQueue'.queue[cmdQueue.tail] =
                      [cmd |-> rx_buffer[1], params |-> SubSeq(rx_buffer, 2, rx_len),
                       param_len |-> rx_len - 1]
          /\ size(cmdQueue') <= size(cmdQueue) => cmdQueue'.queue = cmdQueue.queue]_vars

\* Seventeen commands were admitted and two consumed: the ring has wrapped, tail
\* is behind head.
C28_Witness ==
    /\ cmdQueue.tail = 1 /\ cmdQueue.head = 2 /\ cmdQueue.count = QUEUE_SIZE - 1
    /\ C28_Slot(cmdQueue, 0).params = <<3>>
    /\ C28_Slot(cmdQueue, QUEUE_SIZE - 2).params = <<17>>

\* C29: every write into the 32-byte rx_buffer has its index in 0..31: while a
\* payload is being read, rx_idx <= rx_len <= 31 holds before each write, so the
\* last write of a LEN = 31 frame (its CRC byte) goes to index 31.  No LEN byte
\* takes the parser into the payload state with rx_len outside 1..31.  The
\* parameter length of a CommandPacket is at most 30 (rx_len - 1 at admission).
C29_BufferState ==
    /\ rx_idx \in 0..(MAX_PACKET_SIZE - 1)
    /\ rx_state = 2 =>
          /\ rx_idx <= rx_len /\ rx_len <= MAX_PACKET_SIZE - 1
          /\ Len(rx_buffer) = rx_idx
    /\ rx_state = 1 =>
          \A b \in 0..(U8 - 1) :
              LET r == parseByte(St, rx_state, rx_len, rx_idx, rx_buffer, b)
              IN  r.rx_state = 2 => r.rx_len \in 1..(MAX_PACKET_SIZE - 1) /\ r.rx_idx = 0

C29_PacketState ==
    /\ \A s \in 0..(QUEUE_SIZE - 1) :
          /\ cmdQueue.queue[s].param_len <= MAX_PACKET_SIZE - 2
          /\ Len(cmdQueue.queue[s].params) = cmdQueue.queue[s].param_len
    /\ cur.param_len <= MAX_PACKET_SIZE - 2

C29_ReceiveBufferBounds ==
    /\ [](C29_BufferState /\ C29_PacketState)
    /\ [][(MainStep /\ pc = "rx" /\ wire # <<>> /\ rx_state = 2) =>
            /\ rx_idx <= MAX_PACKET_SIZE - 1
            /\ Len(rx_buffer') <= MAX_PACKET_SIZE
            /\ rx_state' = 2 => rx_buffer' = Append(rx_buffer, Head(wire))
            /\ ev' = "admit" =>
                  cmdQueue'.queue[cmdQueue.tail].param_len = rx_len - 1]_vars

\* The 31 payload bytes of a LEN = 31 frame are in the buffer; its CRC byte is
\* the next byte and goes to index 31.
C29_Witness ==
    /\ pc = "rx" /\ rx_state = 2 /\ ev = "payload"
    /\ rx_len = MAX_PACKET_SIZE - 1 /\ rx_idx = MAX_PACKET_SIZE - 1
    /\ Len(rx_buffer) = MAX_PACKET_SIZE - 1
    /\ Len(wire) = 1

\* C30: the interrupt service does not touch the frame parser: rx_state, rx_len,
\* rx_idx, rx_buffer and g_log_enabled are the same after the interrupt block
\* as before it, and the block reads no byte.  So a frame of which a part had
\* been received when the interrupt was serviced is completed by the bytes that
\* arrive afterwards: ACK_INTERRUPTED having been sent, and provided the main
\* loop keeps running (SpecLive) and the rest of the frame arrives, the frame
\* is executed (at once for a control-plane opcode, through the queue and the
\* executor otherwise), unless the button interrupts again before that.
C30_Straddling == pc = "intclr" /\ ev = "int_service" /\ rx_state = 2 /\ pending # <<>>

C30_RestArrives == []<>(pending = <<>>)

C30_Executed ==
    /\ intAcks > 0 /\ ~g_interrupt_flag
    /\ ev \in {"exec", "timed_start", "print", "drop", "invalid", "clear"}

\* A later button edge was accepted and waits for its own service.
C30_InterruptedAgain == g_interrupt_flag /\ pc # "intclr"

C30_ServiceLeavesParserUntouched ==
    /\ [][(MainStep /\ pc \in {"int", "intclr"}) =>
            UNCHANGED <<rx_state, rx_len, rx_idx, rx_buffer, g_log_enabled, wire>>]_vars
    /\ [][(C30_Straddling /\ MainStep) =>
            (pc' = "timed" /\ ~g_interrupt_flag' /\ ackOut' = <<>> /\ hidOut' = <<>>)]_vars
    /\ C30_RestArrives => (C30_Straddling ~> (C30_Executed \/ C30_InterruptedAgain))

\* The interrupt was serviced with MOUSE_MOVE 05 FB 00 received up to its CRC
\* byte, which is still on its way.
C30_Witness ==
    /\ C30_Straddling
    /\ rx_len = 4 /\ rx_idx = 4 /\ rx_buffer = <<CMD_MOUSE_MOVE, 5, 251, 0>>
    /\ ackOut = <<ACK_INTERRUPTED>> /\ isEmpty(cmdQueue)

\* C31: in every reachable state success_counter <= packet_counter: a frame is
\* counted as received before it can be counted as acknowledged with
\* ACK_SUCCESS, so the success rate logStats prints never exceeds 100%.
C31_SuccessNeverExceedsPackets == logger.success_counter <= logger.packet_counter

====
